---- MODULE Spec2Model ----
(***************************************************************************)
(* A model of the batch source patchers of AmbiraDev/ambira-web:           *)
(*   fix_exhaustive_deps.py  (useCallback wrapping, useEffect deps)        *)
(*   fix_all_eslint.py, fix_remaining_eslint.py (literal / regex rules)    *)
(* Texts are TLA+ strings; offsets are 0-based as in Python.               *)
(***************************************************************************)
EXTENDS Integers, Sequences, FiniteSets, TLC

VARIABLES
    mode,        \* which machine runs: "wrap", "deps", "batch" or "table"
    pc,          \* position of the running function / script
    content,     \* the text buffer being transformed (Python: content)
    func_name,   \* the function name argument (Python: func_name)
    deps,        \* the dependency list argument (Python: deps)
    out1,        \* result of the first application
    out2,        \* result of the second application
    script,      \* batch: which script's main() runs
    disk,        \* batch: path -> file content, or Missing
    job,         \* batch: index of the job-table entry main() is at
    fix_i,       \* batch: index of the next rule / fix of the current file
    original,    \* batch: content as read (original / original_content)
    calls,       \* batch: stage functions called for the current file, in order
    printed,     \* batch: the per-file console lines, as <<path, outcome>>
    wrote,       \* batch: the current file's write completed
    ret,         \* batch: fix_file's return value
    fixed_count, \* batch: main()'s fixed_count
    fault,       \* batch: where an exception was raised in the current file
    visited,     \* batch: the paths main() has iterated over, in order
    results,     \* batch: one record per finished fix_file / process_file call
    table,       \* table: the dict fixes_map, as its items() in order
    entry,       \* table: index of the next key/value pair of the dict display
    passed       \* table: the arguments of main()'s fix_file calls, in order

vars == <<mode, pc, content, func_name, deps, out1, out2, script, disk, job,
          fix_i, original, calls, printed, wrote, ret, fixed_count, fault,
          visited, results, table, entry, passed>>

-----------------------------------------------------------------------------
(* Python str primitives, on TLA+ strings.                                  *)

\* s[a:b] for 0 <= a, b (clamped to len(s) as Python slicing does)
Slice(s, a, b) ==
    LET hi == IF b > Len(s) THEN Len(s) ELSE b
    IN  IF a >= hi THEN "" ELSE SubSeq(s, a + 1, hi)

\* s.startswith(sub, i)
StartsAt(s, sub, i) ==
    /\ i >= 0
    /\ i + Len(sub) <= Len(s)
    /\ Slice(s, i, i + Len(sub)) = sub

\* s.find(sub, from): the lowest index >= from where sub occurs, or -1
FindFrom(s, sub, from) ==
    LET I == {i \in from..(Len(s) - Len(sub)) : StartsAt(s, sub, i)}
    IN  IF I = {} THEN -1 ELSE CHOOSE i \in I : \A j \in I : i <= j

\* s.find(sub)
Find(s, sub) == FindFrom(s, sub, 0)

\* sub in s
In(sub, s) == Find(s, sub) # -1

\* s.replace(old, new): every non-overlapping occurrence, left to right
RECURSIVE Replace(_, _, _)
Replace(s, old, new) ==
    IF old = ""
    THEN IF s = "" THEN new
         ELSE new \o Slice(s, 0, 1) \o Replace(Slice(s, 1, Len(s)), old, new)
    ELSE LET i == Find(s, old)
         IN  IF i = -1 THEN s
             ELSE Slice(s, 0, i) \o new
                  \o Replace(Slice(s, i + Len(old), Len(s)), old, new)

\* the characters str.strip() removes that occur in the modelled texts
Whitespace == {" ", "\t", "\n", "\r", "\f"}

RECURSIVE LStrip(_)
LStrip(s) ==
    IF s # "" /\ Slice(s, 0, 1) \in Whitespace
    THEN LStrip(Slice(s, 1, Len(s))) ELSE s

RECURSIVE RStrip(_)
RStrip(s) ==
    IF s # "" /\ Slice(s, Len(s) - 1, Len(s)) \in Whitespace
    THEN RStrip(Slice(s, 0, Len(s) - 1)) ELSE s

\* s.strip()
Strip(s) == RStrip(LStrip(s))

\* ", ".join(ds)
RECURSIVE Join(_)
Join(ds) ==
    IF ds = <<>> THEN ""
    ELSE IF Len(ds) = 1 THEN ds[1]
    ELSE ds[1] \o ", " \o Join(Tail(ds))

-----------------------------------------------------------------------------
(* fix_exhaustive_deps.py: add_use_callback_import                          *)

ImportHead == "import React, { "
ImportTail == " } from 'react';"

\* re.search(r"import React, \{ ([^}]+) \} from 'react';", content):
\* <<start, end>> of the leftmost match, or <<-1, -1>>.  [^}]+ cannot cross
\* a "}", so the match at a start offset is fixed by the first "}" after
\* the head.
ImportMatchAt(s, p) ==
    LET b == p + Len(ImportHead)
        q == FindFrom(s, "}", b)
    IN  IF /\ StartsAt(s, ImportHead, p)
           /\ q # -1
           /\ q - 1 > b
           /\ StartsAt(s, ImportTail, q - 1)
        THEN q - 1 + Len(ImportTail) ELSE -1

ImportSearch(s) ==
    LET I == {p \in 0..Len(s) : ImportMatchAt(s, p) # -1}
    IN  IF I = {} THEN <<-1, -1>>
        ELSE LET p == CHOOSE i \in I : \A j \in I : i <= j
             IN  <<p, ImportMatchAt(s, p)>>

add_use_callback_import(c) ==
    IF In("useCallback", c) THEN c
    ELSE LET m == ImportSearch(c)
         IN  IF m[1] = -1 THEN c
             ELSE LET group0  == Slice(c, m[1], m[2])
                      imports == Slice(c, m[1] + Len(ImportHead),
                                       m[2] - Len(ImportTail))
                  IN  IF ~In("useCallback", imports)
                      THEN Replace(c, group0,
                               ImportHead \o imports \o ", useCallback"
                                          \o ImportTail)
                      ELSE c

-----------------------------------------------------------------------------
(* fix_exhaustive_deps.py: wrap_function_with_callback                      *)

\* line 73: rf"const {func_name} = async \(\) => \{{" -- the regex-escaped
\* text itself, which line 75 tests with the substring operator `in`
WrapPattern(name) == "const " \o name \o " = async \\(\\) => \\{"

\* line 80: the text handed to content.find
WrapAnchor(name) == "const " \o name \o " = async"

\* the offset of the first brace at or after i, or -1: the loop of lines
\* 89-98 does nothing at any other character
NextBrace(c, i) ==
    LET o == FindFrom(c, "{", i)
        k == FindFrom(c, "}", i)
    IN  IF o = -1 THEN k
        ELSE IF k = -1 THEN o
        ELSE IF o < k THEN o ELSE k

\* lines 85-98: the scan from offset i on, with the loop's brace_count and
\* in_function; returns end_idx (start_idx when the loop ends without a
\* break)
RECURSIVE BraceScan(_, _, _, _, _)
BraceScan(c, start_idx, i, brace_count, in_function) ==
    LET j == NextBrace(c, i)
    IN  IF j = -1 THEN start_idx
        ELSE IF Slice(c, j, j + 1) = "{"
        THEN BraceScan(c, start_idx, j + 1, brace_count + 1, TRUE)
        ELSE IF in_function /\ brace_count - 1 = 0
        THEN j + 1
        ELSE BraceScan(c, start_idx, j + 1, brace_count - 1, in_function)

\* lines 80, 89: start_idx and end_idx as the function computes them
WrapStart(c, name) == Find(c, WrapAnchor(name))
WrapEnd(c, name) == BraceScan(c, WrapStart(c, name), WrapStart(c, name), 0, FALSE)

\* lines 75-101: whether the function reaches the splice of lines 103-119
WrapApplies(c, name) ==
    /\ In(WrapPattern(name), c)
    /\ WrapStart(c, name) # -1
    /\ WrapEnd(c, name) > WrapStart(c, name)

\* line 108: the re-emitted declaration
WrapNewFunc(func_text, name, ds) ==
    "const " \o name \o " = useCallback(async () => "
        \o Slice(func_text, Find(func_text, "=> {") + 3, Len(func_text))
        \o ", [" \o Join(ds) \o "]);"

\* lines 112-117: the text kept after the function
WrapAfter(c, end_idx) ==
    LET after == Slice(c, end_idx, Len(c))
        semicolon_idx == Find(after, ";")
    IN  IF semicolon_idx # -1
        THEN Slice(after, semicolon_idx + 1, Len(after))
        ELSE after

wrap_function_with_callback(c, name, ds) ==
    IF ~WrapApplies(c, name) THEN c
    ELSE LET start_idx == WrapStart(c, name)
             end_idx   == WrapEnd(c, name)
             func_text == Slice(c, start_idx, end_idx)
         IN  Slice(c, 0, start_idx)
                 \o WrapNewFunc(func_text, name, ds)
                 \o WrapAfter(c, end_idx)

-----------------------------------------------------------------------------
(* fix_exhaustive_deps.py: add_deps_to_useeffect                            *)

EffectHead == "useEffect(() => {"

\* the pattern of line 124 tried at offset p: the end offset of the match or
\* -1.  Neither [^}]* can cross a "}" and [^\]]* cannot cross a "]", so the
\* body ends at the first "}" after the head and the list at the first "]".
EffectMatchAt(s, name, p) ==
    LET b == p + Len(EffectHead)
        q == FindFrom(s, "}", b)
        r == FindFrom(s, "]", q + 4)
    IN  IF /\ StartsAt(s, EffectHead, p)
           /\ q # -1
           /\ In(name \o "();", Slice(s, b, q))
           /\ StartsAt(s, "}, [", q)
           /\ r # -1
           /\ StartsAt(s, "]);", r)
        THEN r + 3 ELSE -1

\* re.finditer: the non-overlapping matches from offset p on, left to right,
\* as the matched texts (match.group(0))
RECURSIVE EffectMatches(_, _, _)
EffectMatches(s, name, p) ==
    LET I == {i \in p..Len(s) : EffectMatchAt(s, name, i) # -1}
    IN  IF I = {} THEN <<>>
        ELSE LET i == CHOOSE x \in I : \A y \in I : x <= y
                 e == EffectMatchAt(s, name, i)
             IN  <<Slice(s, i, e)>> \o EffectMatches(s, name, e)

\* line 131-133: re.search(r'\[([^\]]*)\]', effect_text).group(1).strip():
\* the text between the first "[" and the first "]" after it
CurrentDeps(effect_text) ==
    LET o == Find(effect_text, "[")
    IN  Strip(Slice(effect_text, o + 1, FindFrom(effect_text, "]", o + 1)))

\* lines 129-140: the body of the loop, for one match
PatchEffect(c, name, effect_text) ==
    LET current_deps == CurrentDeps(effect_text)
    IN  IF ~In(name, current_deps)
        THEN LET new_deps == IF current_deps # ""
                             THEN current_deps \o ", " \o name
                             ELSE name
                 new_effect == Replace(effect_text,
                                       "[" \o current_deps \o "]",
                                       "[" \o new_deps \o "]")
             IN  Replace(c, effect_text, new_effect)
        ELSE c

RECURSIVE PatchAll(_, _, _)
PatchAll(c, name, matches) ==
    IF matches = <<>> THEN c
    ELSE PatchAll(PatchEffect(c, name, Head(matches)), name, Tail(matches))

add_deps_to_useeffect(c, name) == PatchAll(c, name, EffectMatches(c, name, 0))

-----------------------------------------------------------------------------
(* Bounded input texts.                                                     *)

\* every concatenation of at most n pieces of F
RECURSIVE Concats(_, _)
Concats(F, n) ==
    IF n = 0 THEN {""}
    ELSE LET S == Concats(F, n - 1) IN S \cup {s \o f : s \in S, f \in F}

MaxFrags == 4
MaxBlocks == 2

WrapNames == {"loadX"}
DepLists == {<<"userId">>, <<"groupId", "timeRange">>}

PlainDecl(name) == "const " \o name \o " = async () => {"

\* pieces of the texts handed to wrap_function_with_callback
WrapFrags ==
    { WrapAnchor("loadX"),      \* the declaration prefix alone
      PlainDecl("loadX"),       \* an un-wrapped declaration as it is in a .tsx file
      WrapPattern("loadX"),     \* the text of line 73, backslashes included
      "}", ";", " fetchA()", "{ b }" }

WrapTexts == Concats(WrapFrags, MaxFrags)

DepsNames == {"loadX"}

Effect(body, inputs) == EffectHead \o body \o "}, [" \o inputs \o "]);"

\* the last body holds a block that is left open before the next block
EffectBodies ==
    {" loadX(); ", " a[ x ]; loadX(); ", " run(); ",
     " a[x]; " \o EffectHead \o " loadX(); "}
EffectInputs == {"", " ", "userId", "loadXY", "x", "a, loadX"}

\* pieces of the texts handed to add_deps_to_useeffect
DepsFrags ==
    {Effect(b, i) : b \in EffectBodies, i \in EffectInputs}
        \cup {EffectHead, "\n"}

DepsTexts == Concats(DepsFrags, MaxBlocks)

-----------------------------------------------------------------------------
(* The two function-level machines: apply the function, then apply it to   *)
(* its own result.                                                          *)

BatchIdle ==
    /\ script = "none"
    /\ disk = <<>>
    /\ job = 0
    /\ fix_i = 0
    /\ original = ""
    /\ calls = <<>>
    /\ printed = <<>>
    /\ wrote = FALSE
    /\ ret = FALSE
    /\ fixed_count = 0
    /\ fault = "none"
    /\ visited = <<>>
    /\ results = <<>>
    /\ table = <<>>
    /\ entry = 0
    /\ passed = <<>>

batchVars == <<script, disk, job, fix_i, original, calls, printed, wrote,
               ret, fixed_count, fault, visited, results, table, entry,
               passed>>

WrapInit ==
    /\ mode = "wrap"
    /\ pc = "start"
    /\ content \in WrapTexts
    /\ func_name \in WrapNames
    /\ deps \in DepLists
    /\ out1 = ""
    /\ out2 = ""
    /\ BatchIdle

WrapFirst ==
    /\ mode = "wrap" /\ pc = "start"
    /\ out1' = wrap_function_with_callback(content, func_name, deps)
    /\ pc' = "once"
    /\ UNCHANGED <<mode, content, func_name, deps, out2, batchVars>>

WrapSecond ==
    /\ mode = "wrap" /\ pc = "once"
    /\ out2' = wrap_function_with_callback(out1, func_name, deps)
    /\ pc' = "twice"
    /\ UNCHANGED <<mode, content, func_name, deps, out1, batchVars>>

WrapNext == WrapFirst \/ WrapSecond

SpecWrap == WrapInit /\ [][WrapNext]_vars

DepsInit ==
    /\ mode = "deps"
    /\ pc = "start"
    /\ content \in DepsTexts
    /\ func_name \in DepsNames
    /\ deps = <<>>
    /\ out1 = ""
    /\ out2 = ""
    /\ BatchIdle

DepsFirst ==
    /\ mode = "deps" /\ pc = "start"
    /\ out1' = add_deps_to_useeffect(content, func_name)
    /\ pc' = "once"
    /\ UNCHANGED <<mode, content, func_name, deps, out2, batchVars>>

DepsSecond ==
    /\ mode = "deps" /\ pc = "once"
    /\ out2' = add_deps_to_useeffect(out1, func_name)
    /\ pc' = "twice"
    /\ UNCHANGED <<mode, content, func_name, deps, out1, batchVars>>

DepsNext == DepsFirst \/ DepsSecond

SpecDeps == DepsInit /\ [][DepsNext]_vars

-----------------------------------------------------------------------------
(* fix_all_eslint.py / fix_remaining_eslint.py: rules and fix_file.  The    *)
(* two scripts share fix_file and main line for line; only fixes_map        *)
(* differs.                                                                 *)

\* a compiled pattern is a sequence of literal parts and WS parts (\s*)
WS == "\\s*"

RECURSIVE SkipWs(_, _)
SkipWs(s, p) ==
    IF p < Len(s) /\ Slice(s, p, p + 1) \in Whitespace
    THEN SkipWs(s, p + 1) ELSE p

\* the end offset of the pattern's match at offset p, or -1.  No literal
\* part of the table's patterns starts with whitespace, so the greedy \s*
\* never gives a character back.
RECURSIVE ReMatchAt(_, _, _)
ReMatchAt(s, p, parts) ==
    IF parts = <<>> THEN p
    ELSE IF Head(parts) = WS THEN ReMatchAt(s, SkipWs(s, p), Tail(parts))
    ELSE IF StartsAt(s, Head(parts), p)
    THEN ReMatchAt(s, p + Len(Head(parts)), Tail(parts))
    ELSE -1

\* pattern.sub(rep, s) for a replacement without group references
RECURSIVE ReSub(_, _, _)
ReSub(s, parts, rep) ==
    LET I == {i \in 0..Len(s) : ReMatchAt(s, i, parts) # -1}
    IN  IF I = {} THEN s
        ELSE LET i == CHOOSE x \in I : \A y \in I : x <= y
                 e == ReMatchAt(s, i, parts)
             IN  Slice(s, 0, i) \o rep \o ReSub(Slice(s, e, Len(s)), parts, rep)

\* lines 18-21: one iteration of fix_file's loop
ApplyRule(c, rule) ==
    IF rule.kind = "str"
    THEN Replace(c, rule.pat, rule.rep)
    ELSE ReSub(c, rule.pat, rule.rep)

StrRule(pat, rep) == [kind |-> "str", pat |-> pat, rep |-> rep]
ReRule(parts, rep) == [kind |-> "re", pat |-> parts, rep |-> rep]

\* three entries of fixes_map, in the order they are written
fixes_map ==
    << [path  |-> "src/components/header/Header.tsx",
        fixes |-> << StrRule(", DIMENSIONS", "") >>],
       [path  |-> "src/components/ProfileStats.tsx",
        fixes |-> << StrRule("isOwnProfile = false", "_isOwnProfile = false"),
                     ReRule(<<"(index)", WS, "=>", WS>>, "(_index) => ") >>],
       [path  |-> "src/components/SessionCard.tsx",
        fixes |-> << ReRule(<<"catch", WS, "(error)", WS, "{">>,
                            "catch (_error) {") >>] >>

\* the entries of FIXES written at lines 16-18, 34-37 and 45-47, in their
\* written order
FIXES ==
    << [path  |-> "src/components/GroupChallenges.tsx",
        fixes |-> << [name |-> "loadGroupChallenges", deps |-> <<"groupId">>] >>],
       [path  |-> "src/components/ProjectList.tsx",
        fixes |-> << [name |-> "loadSessions", deps |-> <<"userId">>],
                     [name |-> "processChartData",
                      deps |-> <<"sessions", "timeRange">>] >>],
       [path  |-> "src/components/StreakCard.tsx",
        fixes |-> << [name |-> "loadGroups", deps |-> <<"userId">>] >>] >>

\* fix_file 24-25, process_file 167: what a write that raises leaves in the
\* file: the old text when open() failed, else the new text cut at any
\* length below its own
FailedWrite(old, new) ==
    {old} \cup {Slice(new, 0, n) : n \in {k \in 0..Len(new) : k = 0 \/ k < Len(new)}}

\* line 23 / line 166: the write-back test
ShouldWrite_Always(c, o) == TRUE

ShouldWrite(c, o) == c # o

-----------------------------------------------------------------------------
(* The batch machine: main() of either script over a bounded job table and *)
(* a file system whose reads and writes may raise.                          *)

MaxFiles == 2

Scripts == {"fix_all_eslint", "fix_exhaustive_deps"}

Jobs == SubSeq(IF script = "fix_all_eslint" THEN fixes_map ELSE FIXES,
               1, MaxFiles)

Paths(sc) ==
    LET T == IF sc = "fix_all_eslint" THEN fixes_map ELSE FIXES
    IN  {T[i].path : i \in 1..MaxFiles}

\* a source file on which the path's rules act
Matching(path) ==
    CASE path = "src/components/header/Header.tsx" ->
             "import { COLORS, DIMENSIONS } from './constants';\n"
      [] path = "src/components/ProfileStats.tsx" ->
             "isOwnProfile = false\nrows.map((index)  =>\nindex)\n"
      [] path = "src/components/SessionCard.tsx" ->
             "try { go(); } catch  (error){ }\n"
      [] path = "src/components/GroupChallenges.tsx" ->
             "import React, { useEffect } from 'react';\n"
      [] path = "src/components/ProjectList.tsx" ->
             Effect(" loadSessions(); ", "userId") \o "\n"
      [] path = "src/components/StreakCard.tsx" ->
             Effect(" loadGroups(); ", "") \o "\n"

\* a source file the rules leave alone
Untouched == "export default function Page() { return null; }\n"

NoFile == [exists |-> FALSE, text |-> ""]
File(t) == [exists |-> TRUE, text |-> t]

path == Jobs[job].path
fixes == Jobs[job].fixes

Result(final, raised, r, w, d) ==
    [path |-> path, original |-> original, final |-> final,
     applied |-> fix_i - 1, written |-> w, ret |-> r, raised |-> raised,
     on_disk |-> d[path].text]

BatchInit ==
    /\ mode = "batch"
    /\ pc = "main"
    /\ script \in Scripts
    /\ disk \in [Paths(script) -> {NoFile, File(Untouched)}
                                    \cup {File(Matching(q)) : q \in Paths(script)}]
    /\ \A q \in Paths(script) :
           disk[q].exists => disk[q].text \in {Untouched, Matching(q)}
    /\ content = "" /\ original = ""
    /\ func_name = "" /\ deps = <<>> /\ out1 = "" /\ out2 = ""
    /\ job = 0 /\ fix_i = 0
    /\ calls = <<>> /\ printed = <<>>
    /\ wrote = FALSE /\ ret = FALSE
    /\ fixed_count = 0
    /\ fault = "none"
    /\ visited = <<>> /\ results = <<>>
    /\ table = <<>> /\ entry = 0 /\ passed = <<>>

fnVars == <<mode, func_name, deps, out1, out2, script, table, entry, passed>>

\* fix_all_eslint.py 158-161, fix_exhaustive_deps.py 177: main() starts; the
\* print of line 161 may raise, which ends main()
Main_Start ==
    /\ mode = "batch" /\ pc = "main"
    /\ \/ /\ pc' = "loop"
          /\ job' = 1
       \/ /\ script = "fix_all_eslint"
          /\ pc' = "aborted"
          /\ UNCHANGED job
    /\ fixed_count' = 0
    /\ UNCHANGED <<fnVars, content, disk, fix_i, original, calls, printed,
                   wrote, ret, fault, visited, results>>

\* fix_all_eslint.py 163-165, 169-170; fix_exhaustive_deps.py 179-184, 146:
\* the loop takes the next entry and tests whether the file exists. The
\* exception of an exists() that cannot stat the path, or of a print that
\* raises (lines 170, 184, 146), is caught nowhere and ends main()
Main_Loop ==
    /\ mode = "batch" /\ pc = "loop" /\ job <= Len(Jobs)
    /\ visited' = Append(visited, path)
    /\ \/ /\ disk[path].exists
          /\ pc' = "read"
          /\ fault' = "none"
          /\ UNCHANGED <<printed, job>>
       \/ /\ ~disk[path].exists
          /\ printed' = Append(printed, <<path, "not-found">>)
          /\ job' = job + 1
          /\ pc' = "loop"
          /\ fault' = "none"
       \/ /\ fault' = "stat"
          /\ pc' = "aborted"
          /\ UNCHANGED <<printed, job>>
       \/ /\ ~disk[path].exists \/ script = "fix_exhaustive_deps"
          /\ fault' = "print"
          /\ pc' = "aborted"
          /\ UNCHANGED <<printed, job>>
    /\ content' = "" /\ original' = ""
    /\ fix_i' = 1 /\ calls' = <<>> /\ wrote' = FALSE
    /\ UNCHANGED <<fnVars, disk, ret, fixed_count, results>>

\* fix_all_eslint.py 172-173, fix_exhaustive_deps.py 186: the final summary,
\* or its print raises
Main_Summary ==
    /\ mode = "batch" /\ pc = "loop" /\ job > Len(Jobs)
    /\ pc' \in {"end", "aborted"}
    /\ UNCHANGED <<fnVars, content, disk, job, fix_i, original, calls,
                   printed, wrote, ret, fixed_count, fault, visited, results>>

\* fix_file 13-16: read the file, or raise
FF_Read ==
    /\ mode = "batch" /\ script = "fix_all_eslint" /\ pc = "read"
    /\ \/ /\ content' = disk[path].text
          /\ original' = disk[path].text
          /\ pc' = "rules"
          /\ UNCHANGED fault
       \/ /\ fault' = "read"
          /\ pc' = "except"
          /\ UNCHANGED <<content, original>>
    /\ UNCHANGED <<fnVars, disk, job, fix_i, calls, printed, wrote, ret,
                   fixed_count, visited, results>>

\* fix_file 17-21: apply the next rule to the current buffer, or raise
FF_Rule ==
    /\ mode = "batch" /\ script = "fix_all_eslint" /\ pc = "rules"
    /\ fix_i <= Len(fixes)
    /\ \/ /\ content' = ApplyRule(content, fixes[fix_i])
          /\ fix_i' = fix_i + 1
          /\ UNCHANGED <<pc, fault>>
       \/ /\ fault' = "transform"
          /\ pc' = "except"
          /\ UNCHANGED <<content, fix_i>>
    /\ UNCHANGED <<fnVars, disk, job, original, calls, printed, wrote, ret,
                   fixed_count, visited, results>>

\* fix_file 23, 27: after the loop, compare; return False when identical
FF_Compare ==
    /\ mode = "batch" /\ script = "fix_all_eslint" /\ pc = "rules"
    /\ fix_i > Len(fixes)
    /\ IF ShouldWrite(content, original)
       THEN /\ pc' = "write"
            /\ UNCHANGED <<ret, results>>
       ELSE /\ ret' = FALSE
            /\ results' = Append(results,
                                 Result(content, FALSE, FALSE, FALSE, disk))
            /\ pc' = "returned"
    /\ UNCHANGED <<fnVars, content, disk, job, fix_i, original, calls,
                   printed, wrote, fixed_count, fault, visited>>

\* fix_file 24-26: open for writing and write, then return True; a write
\* that raises leaves the old text or the beginning of the new text
FF_Write ==
    /\ mode = "batch" /\ script = "fix_all_eslint" /\ pc = "write"
    /\ \/ /\ disk' = [disk EXCEPT ![path] = File(content)]
          /\ wrote' = TRUE
          /\ ret' = TRUE
          /\ results' = Append(results,
                               Result(content, FALSE, TRUE, TRUE, disk'))
          /\ pc' = "returned"
          /\ UNCHANGED fault
       \/ /\ \E t \in FailedWrite(disk[path].text, content) :
                 disk' = [disk EXCEPT ![path] = File(t)]
          /\ fault' = "write"
          /\ pc' = "except"
          /\ UNCHANGED <<wrote, ret, results>>
    /\ UNCHANGED <<fnVars, content, job, fix_i, original, calls, printed,
                   fixed_count, visited>>

\* fix_file 28-30: any Exception is printed and False returned; when the
\* print of line 29 raises, that exception leaves fix_file and ends main()
FF_Except ==
    /\ mode = "batch" /\ script = "fix_all_eslint" /\ pc = "except"
    /\ results' = Append(results, Result(content, TRUE, FALSE, FALSE, disk))
    /\ \/ /\ printed' = Append(printed, <<path, "error">>)
          /\ ret' = FALSE
          /\ pc' = "returned"
       \/ /\ pc' = "aborted"
          /\ UNCHANGED <<printed, ret>>
    /\ UNCHANGED <<fnVars, content, disk, job, fix_i, original, calls,
                   wrote, fixed_count, fault, visited>>

\* main 166-168: count and report the file when fix_file returned True; the
\* print of line 168 may raise, which ends main()
Main_AfterFix ==
    /\ mode = "batch" /\ script = "fix_all_eslint" /\ pc = "returned"
    /\ IF ret
       THEN /\ fixed_count' = fixed_count + 1
            /\ \/ /\ printed' = Append(printed, <<path, "fixed">>)
                  /\ job' = job + 1
                  /\ pc' = "loop"
               \/ /\ pc' = "aborted"
                  /\ UNCHANGED <<printed, job>>
       ELSE /\ job' = job + 1
            /\ pc' = "loop"
            /\ UNCHANGED <<fixed_count, printed>>
    /\ UNCHANGED <<fnVars, content, disk, fix_i, original, calls, wrote,
                   ret, fault, visited, results>>

-----------------------------------------------------------------------------
(* fix_exhaustive_deps.py: process_file                                     *)

ImportCall == <<"add_use_callback_import", "">>
WrapCall(name) == <<"wrap_function_with_callback", name>>
DepsCall(name) == <<"add_deps_to_useeffect", name>>

\* process_file 146-150: read the file, or raise
PF_Read ==
    /\ mode = "batch" /\ script = "fix_exhaustive_deps" /\ pc = "read"
    /\ \/ /\ content' = disk[path].text
          /\ original' = disk[path].text
          /\ pc' = "import"
          /\ UNCHANGED fault
       \/ /\ fault' = "read"
          /\ pc' = "except"
          /\ UNCHANGED <<content, original>>
    /\ UNCHANGED <<fnVars, disk, job, fix_i, calls, printed, wrote, ret,
                   fixed_count, visited, results>>

\* process_file 152-153
PF_Import ==
    /\ mode = "batch" /\ script = "fix_exhaustive_deps" /\ pc = "import"
    /\ content' = add_use_callback_import(content)
    /\ calls' = Append(calls, ImportCall)
    /\ pc' = "fixes"
    /\ UNCHANGED <<fnVars, disk, job, fix_i, original, printed, wrote, ret,
                   fixed_count, fault, visited, results>>

\* process_file 156-164 with the two calls of the loop body exchanged
PF_Fix_DepsFirst ==
    /\ mode = "batch" /\ script = "fix_exhaustive_deps" /\ pc = "fixes"
    /\ fix_i <= Len(fixes)
    /\ \/ LET fix == fixes[fix_i]
              d   == add_deps_to_useeffect(content, fix.name)
          IN  /\ content' = wrap_function_with_callback(d, fix.name, fix.deps)
              /\ calls' = calls \o <<DepsCall(fix.name), WrapCall(fix.name)>>
              /\ fix_i' = fix_i + 1
              /\ UNCHANGED <<pc, fault>>
       \/ LET fix == fixes[fix_i]
              d   == add_deps_to_useeffect(content, fix.name)
          IN  /\ ~In(WrapPattern(fix.name), d)
              /\ content' = d
              /\ calls' = calls \o <<DepsCall(fix.name), WrapCall(fix.name)>>
              /\ fault' = "transform"
              /\ pc' = "except"
              /\ UNCHANGED fix_i
    /\ UNCHANGED <<fnVars, disk, job, original, printed, wrote, ret,
                   fixed_count, visited, results>>

\* process_file 156-164: one iteration of the loop over the file's fixes:
\* wrap the function, then patch the useEffect lists. When the warning of
\* line 76 is printed and that print raises, the exception leaves the call
\* of line 161 for the handler
PF_Fix ==
    /\ mode = "batch" /\ script = "fix_exhaustive_deps" /\ pc = "fixes"
    /\ fix_i <= Len(fixes)
    /\ \/ LET fix == fixes[fix_i]
              w   == wrap_function_with_callback(content, fix.name, fix.deps)
          IN  /\ content' = add_deps_to_useeffect(w, fix.name)
              /\ calls' = calls \o <<WrapCall(fix.name), DepsCall(fix.name)>>
              /\ fix_i' = fix_i + 1
              /\ UNCHANGED <<pc, fault>>
       \/ LET fix == fixes[fix_i]
          IN  /\ ~In(WrapPattern(fix.name), content)
              /\ calls' = Append(calls, WrapCall(fix.name))
              /\ fault' = "transform"
              /\ pc' = "except"
              /\ UNCHANGED <<content, fix_i>>
    /\ UNCHANGED <<fnVars, disk, job, original, printed, wrote, ret,
                   fixed_count, visited, results>>

\* process_file 166, 169-170: after the loop, compare; report "no changes",
\* or that print raises
PF_Compare ==
    /\ mode = "batch" /\ script = "fix_exhaustive_deps" /\ pc = "fixes"
    /\ fix_i > Len(fixes)
    /\ IF ShouldWrite(content, original)
       THEN /\ pc' = "write"
            /\ UNCHANGED <<printed, results, fault>>
       ELSE \/ /\ printed' = Append(printed, <<path, "unchanged">>)
               /\ results' = Append(results,
                                    Result(content, FALSE, FALSE, FALSE, disk))
               /\ pc' = "returned"
               /\ UNCHANGED fault
            \/ /\ fault' = "print"
               /\ pc' = "except"
               /\ UNCHANGED <<printed, results>>
    /\ UNCHANGED <<fnVars, content, disk, job, fix_i, original, calls,
                   wrote, ret, fixed_count, visited>>

\* process_file 167-168: write_text, then report "updated". The print may
\* raise after the file was written; a write that raises leaves the old text
\* or the beginning of the new text
PF_Write ==
    /\ mode = "batch" /\ script = "fix_exhaustive_deps" /\ pc = "write"
    /\ \/ /\ disk' = [disk EXCEPT ![path] = File(content)]
          /\ wrote' = TRUE
          /\ printed' = Append(printed, <<path, "fixed">>)
          /\ results' = Append(results,
                               Result(content, FALSE, FALSE, TRUE, disk'))
          /\ pc' = "returned"
          /\ UNCHANGED fault
       \/ /\ disk' = [disk EXCEPT ![path] = File(content)]
          /\ wrote' = TRUE
          /\ fault' = "print"
          /\ pc' = "except"
          /\ UNCHANGED <<printed, results>>
       \/ /\ \E t \in FailedWrite(disk[path].text, content) :
                 disk' = [disk EXCEPT ![path] = File(t)]
          /\ fault' = "write"
          /\ pc' = "except"
          /\ UNCHANGED <<wrote, printed, results>>
    /\ UNCHANGED <<fnVars, content, job, fix_i, original, calls, ret,
                   fixed_count, visited>>

\* process_file 172-173: any Exception is printed; when the print of line
\* 173 raises, that exception leaves process_file and ends main()
PF_Except ==
    /\ mode = "batch" /\ script = "fix_exhaustive_deps" /\ pc = "except"
    /\ results' = Append(results, Result(content, TRUE, FALSE, wrote, disk))
    /\ \/ /\ printed' = Append(printed, <<path, "error">>)
          /\ pc' = "returned"
       \/ /\ pc' = "aborted"
          /\ UNCHANGED printed
    /\ UNCHANGED <<fnVars, content, disk, job, fix_i, original, calls,
                   wrote, ret, fixed_count, fault, visited>>

\* main 179-182: process_file returned; the loop goes on
Main_AfterProcess ==
    /\ mode = "batch" /\ script = "fix_exhaustive_deps" /\ pc = "returned"
    /\ job' = job + 1
    /\ pc' = "loop"
    /\ UNCHANGED <<fnVars, content, disk, fix_i, original, calls, printed,
                   wrote, ret, fixed_count, fault, visited, results>>

BatchNext ==
    \/ Main_Start \/ Main_Loop \/ Main_Summary
    \/ FF_Read \/ FF_Rule \/ FF_Compare \/ FF_Write \/ FF_Except
    \/ Main_AfterFix
    \/ PF_Read \/ PF_Import \/ PF_Fix \/ PF_Compare \/ PF_Write \/ PF_Except
    \/ Main_AfterProcess

SpecBatch == BatchInit /\ [][BatchNext]_vars

-----------------------------------------------------------------------------
(* The rule tables as they are written, and the dict Python builds from    *)
(* them: fixes_map is a dict display, evaluated pair by pair at import.     *)

\* fix_all_eslint.py: the key/value pairs written at lines 35-38, 48-50,
\* 51-53, 93-97 and 110-113 of the display, in their written order
fixes_map_written ==
    << [path  |-> "src/components/RightSidebar.tsx",
        fixes |-> << StrRule("import React, { useState, useEffect, useCallback } from 'react';",
                             "import React, { useState, useEffect } from 'react';") >>],
       [path  |-> "src/components/PrivacySettings.tsx",
        fixes |-> << StrRule("import { useAuth } from '@/hooks/useAuth';", "") >>],
       [path  |-> "src/components/header/Header.tsx",
        fixes |-> << StrRule(", DIMENSIONS", "") >>],
       [path  |-> "src/components/PrivacySettings.tsx",
        fixes |-> << StrRule("const loadBlockedUsers",
                             "// const loadBlockedUsers"),
                     StrRule("const getVisibilityIcon",
                             "// const getVisibilityIcon"),
                     StrRule("const getVisibilityDescription",
                             "// const getVisibilityDescription") >>],
       [path  |-> "src/components/RightSidebar.tsx",
        fixes |-> << ReRule(<<"(index,">>, "(_index,"),
                     ReRule(<<"catch", WS, "(error)", WS, "{">>,
                            "catch (_error) {") >>] >>

\* fix_remaining_eslint.py: the key/value pairs written at lines 52-54,
\* 55-57, 58-60, 105-108 and 113-116 of the display, in their written order
fixes_map_written_remaining ==
    << [path  |-> "src/components/PersonalAnalyticsDashboard.tsx",
        fixes |-> << StrRule("import { StreakDisplay } from",
                             "// import { StreakDisplay } from") >>],
       [path  |-> "src/components/ProfileStats.tsx",
        fixes |-> << StrRule("isOwnProfile = false",
                             "_isOwnProfile = false") >>],
       [path  |-> "src/components/RightSidebar.tsx",
        fixes |-> << ReRule(<<"(index,">>, "(_index,") >>],
       [path  |-> "src/components/PersonalAnalyticsDashboard.tsx",
        fixes |-> << StrRule("const filters: any = {};",
                             "const filters: Record<string, unknown> = {};") >>],
       [path  |-> "src/components/ProfileStats.tsx",
        fixes |-> << StrRule("(week: any) => week.hours",
                             "(week: { hours: number }) => week.hours") >>] >>

TableScripts == {"fix_all_eslint", "fix_remaining_eslint"}

Written(sc) ==
    IF sc = "fix_all_eslint" THEN fixes_map_written
    ELSE fixes_map_written_remaining

WrittenPaths(sc) == {Written(sc)[i].path : i \in 1..Len(Written(sc))}

\* d[k] = v on a dict kept as its items() in order: a key that is already
\* present keeps its position and has its value replaced
DictStore(d, k, v) ==
    IF \E i \in 1..Len(d) : d[i].path = k
    THEN [i \in 1..Len(d) |->
              IF d[i].path = k THEN [path |-> k, fixes |-> v] ELSE d[i]]
    ELSE Append(d, [path |-> k, fixes |-> v])

\* fix_file 17-21: the whole loop over the rule list
RECURSIVE ApplyRules(_, _)
ApplyRules(c, rules) ==
    IF rules = <<>> THEN c
    ELSE ApplyRules(ApplyRule(c, Head(rules)), Tail(rules))

\* a source file on which every rule written for the path acts
TableSource(q) ==
    CASE q = "src/components/RightSidebar.tsx" ->
             "import React, { useState, useEffect, useCallback } from 'react';\n"
                 \o "rows.map((index, row) => row);\n"
                 \o "try { go(); } catch  (error){ }\n"
      [] q = "src/components/PrivacySettings.tsx" ->
             "import { useAuth } from '@/hooks/useAuth';\n"
                 \o "const loadBlockedUsers = 1;\n"
      [] q = "src/components/header/Header.tsx" ->
             "import { COLORS, DIMENSIONS } from './constants';\n"
      [] q = "src/components/PersonalAnalyticsDashboard.tsx" ->
             "import { StreakDisplay } from './S';\n"
                 \o "const filters: any = {};\n"
      [] q = "src/components/ProfileStats.tsx" ->
             "isOwnProfile = false\n(week: any) => week.hours\n"

TableInit ==
    /\ mode = "table"
    /\ pc = "literal"
    /\ script \in TableScripts
    /\ disk \in [WrittenPaths(script) -> {NoFile, File(Untouched)}
                     \cup {File(TableSource(q)) : q \in WrittenPaths(script)}]
    /\ \A q \in WrittenPaths(script) :
           disk[q].exists => disk[q].text \in {Untouched, TableSource(q)}
    /\ table = <<>> /\ entry = 1 /\ passed = <<>>
    /\ content = "" /\ original = ""
    /\ func_name = "" /\ deps = <<>> /\ out1 = "" /\ out2 = ""
    /\ job = 0 /\ fix_i = 0
    /\ calls = <<>> /\ printed = <<>>
    /\ wrote = FALSE /\ ret = FALSE
    /\ fixed_count = 0
    /\ fault = "none"
    /\ visited = <<>> /\ results = <<>>

tableIdle == <<mode, script, content, func_name, deps, out1, out2, fix_i,
               original, calls, wrote, ret, fault, results>>

\* fixes_map = { ... }: the display stores its next key/value pair
Literal_Store ==
    /\ mode = "table" /\ pc = "literal"
    /\ entry <= Len(Written(script))
    /\ table' = DictStore(table, Written(script)[entry].path,
                          Written(script)[entry].fixes)
    /\ entry' = entry + 1
    /\ UNCHANGED <<tableIdle, pc, disk, job, passed, printed, fixed_count,
                   visited>>

\* main 158-161: the module is loaded, main() starts; the print of line 161
\* may raise, which ends main()
Table_Main_Start ==
    /\ mode = "table" /\ pc = "literal"
    /\ entry > Len(Written(script))
    /\ \/ /\ pc' = "loop"
          /\ job' = 1
       \/ /\ pc' = "aborted"
          /\ UNCHANGED job
    /\ fixed_count' = 0
    /\ UNCHANGED <<tableIdle, table, entry, disk, passed, printed, visited>>

\* main 163-168 with fix_file 10-30: the next item of fixes_map.items() whose
\* file exists is handed to fix_file, which rewrites the file when the rules
\* change it, or raises, reports the error and returns False; a print that
\* raises (line 168, line 29) ends main()
Table_Fix ==
    /\ mode = "table" /\ pc = "loop" /\ job <= Len(table)
    /\ disk[table[job].path].exists
    /\ LET q   == table[job].path
           old == disk[q].text
           new == ApplyRules(old, table[job].fixes)
       IN  /\ visited' = Append(visited, q)
           /\ passed' = Append(passed, table[job])
           /\ \/ /\ ShouldWrite(new, old)
                 /\ disk' = [disk EXCEPT ![q] = File(new)]
                 /\ fixed_count' = fixed_count + 1
                 /\ \/ /\ printed' = Append(printed, <<q, "fixed">>)
                       /\ job' = job + 1
                       /\ UNCHANGED pc
                    \/ /\ pc' = "aborted"
                       /\ UNCHANGED <<printed, job>>
              \/ /\ ~ShouldWrite(new, old)
                 /\ job' = job + 1
                 /\ UNCHANGED <<disk, fixed_count, printed, pc>>
              \/ /\ \E t \in (IF ShouldWrite(new, old)
                              THEN FailedWrite(old, new) ELSE {old}) :
                        disk' = [disk EXCEPT ![q] = File(t)]
                 /\ UNCHANGED fixed_count
                 /\ \/ /\ printed' = Append(printed, <<q, "error">>)
                       /\ job' = job + 1
                       /\ UNCHANGED pc
                    \/ /\ pc' = "aborted"
                       /\ UNCHANGED <<printed, job>>
    /\ UNCHANGED <<tableIdle, table, entry>>

\* main 163-165, 169-170: the file of the next item does not exist; the
\* print of line 170 may raise, which ends main()
Table_NotFound ==
    /\ mode = "table" /\ pc = "loop" /\ job <= Len(table)
    /\ ~disk[table[job].path].exists
    /\ visited' = Append(visited, table[job].path)
    /\ \/ /\ printed' = Append(printed, <<table[job].path, "not-found">>)
          /\ job' = job + 1
          /\ UNCHANGED pc
       \/ /\ pc' = "aborted"
          /\ UNCHANGED <<printed, job>>
    /\ UNCHANGED <<tableIdle, table, entry, disk, passed, fixed_count>>

\* main 172-173: the final summary, or its print raises
Table_Summary ==
    /\ mode = "table" /\ pc = "loop" /\ job > Len(table)
    /\ pc' \in {"end", "aborted"}
    /\ UNCHANGED <<tableIdle, table, entry, disk, job, passed, printed,
                   fixed_count, visited>>

\* main 165: exists() cannot stat the path of the next item and raises; the
\* exception is caught nowhere and ends main()
Table_StatRaises ==
    /\ mode = "table" /\ pc = "loop" /\ job <= Len(table)
    /\ visited' = Append(visited, table[job].path)
    /\ pc' = "aborted"
    /\ UNCHANGED <<tableIdle, table, entry, disk, job, passed, printed,
                   fixed_count>>

TableNext ==
    \/ Literal_Store \/ Table_Main_Start
    \/ Table_Fix \/ Table_NotFound \/ Table_StatRaises \/ Table_Summary

SpecTable == TableInit /\ [][TableNext]_vars

-----------------------------------------------------------------------------
(* Reference definitions used to state the claims.                          *)

\* the offset of the "}" at which the depth, 1 at the "{" before offset i,
\* returns to zero; -1 when the text ends first
RECURSIVE CloseFrom(_, _, _)
CloseFrom(s, i, depth) ==
    LET j == NextBrace(s, i)
    IN  IF j = -1 THEN -1
        ELSE IF Slice(s, j, j + 1) = "{" THEN CloseFrom(s, j + 1, depth + 1)
        ELSE IF depth = 1 THEN j
        ELSE CloseFrom(s, j + 1, depth - 1)

\* the "}" matching the "{" at offset open
MatchingClose(s, open) == CloseFrom(s, open + 1, 1)

\* the stripped items of a comma-separated list
RECURSIVE Members(_)
Members(s) ==
    LET k == Find(s, ",")
    IN  IF k = -1 THEN {Strip(s)}
        ELSE {Strip(Slice(s, 0, k))} \cup Members(Slice(s, k + 1, Len(s)))

\* the bracketed inputs list that ends a matched useEffect block
InputsOf(effect_text) ==
    LET q == FindFrom(effect_text, "}", Len(EffectHead))
    IN  Slice(effect_text, q + 4, Len(effect_text) - 3)

-----------------------------------------------------------------------------
(* Claims on wrap_function_with_callback (SpecWrap).                        *)

\* C1: a text holding the un-wrapped declaration `const NAME = async () => {`
\* with a brace-balanced body is changed by the call, and the result holds
\* `const NAME = useCallback(async () => <body>, [deps joined]);`.
C1_PlainDeclarationIsWrapped ==
    (mode = "wrap" /\ pc # "start") =>
        LET P    == PlainDecl(func_name)
            p    == Find(content, P)
            open == p + Len(P) - 1
            m    == MatchingClose(content, open)
        IN  (p # -1 /\ m # -1) =>
                /\ out1 # content
                /\ In("const " \o func_name \o " = useCallback(async () => "
                          \o Slice(content, open, m + 1)
                          \o ", [" \o Join(deps) \o "]);", out1)

\* C4: when the first application was applied, the second application
\* returns its input unchanged.
C4_SecondWrapUnchanged ==
    (mode = "wrap" /\ pc = "twice" /\ WrapApplies(content, func_name)) =>
        out2 = out1

\* C5: when the call is applied, the result is the text before the
\* declaration, the new declaration, and the text after the body's closing
\* brace less a ";" that immediately follows that brace.
C5_SpliceFrame ==
    (mode = "wrap" /\ pc # "start" /\ WrapApplies(content, func_name)) =>
        LET start_idx == WrapStart(content, func_name)
            end_idx   == WrapEnd(content, func_name)
            after     == Slice(content, end_idx, Len(content))
            rest      == IF StartsAt(after, ";", 0)
                         THEN Slice(after, 1, Len(after)) ELSE after
        IN  out1 = Slice(content, 0, start_idx)
                     \o WrapNewFunc(Slice(content, start_idx, end_idx),
                                    func_name, deps)
                     \o rest

\* C6: whenever the scan runs, the extent ends just after the "}" that
\* matches the first "{" of the located declaration, and when that "{" has
\* no matching "}" the text is returned unchanged.
C6_BalancedScan ==
    (mode = "wrap" /\ pc # "start" /\ In(WrapPattern(func_name), content)) =>
        LET open == FindFrom(content, "{", WrapStart(content, func_name))
            m    == MatchingClose(content, open)
        IN  IF m # -1
            THEN WrapEnd(content, func_name) = m + 1
            ELSE out1 = content

-----------------------------------------------------------------------------
(* Claims on add_deps_to_useeffect (SpecDeps).                              *)

\* C2: after the call, every useEffect block of the result whose body
\* invokes NAME has NAME as a member of its inputs list.
C2_NameListedInEveryInvokingEffect ==
    (mode = "deps" /\ pc # "start") =>
        LET blocks == EffectMatches(out1, func_name, 0)
        IN  \A k \in 1..Len(blocks) :
                func_name \in Members(InputsOf(blocks[k]))

\* C3: add_deps_to_useeffect applied to its own result returns it unchanged.
C3_AddDepsIdempotent ==
    (mode = "deps" /\ pc = "twice") => out2 = out1

-----------------------------------------------------------------------------
(* Claims on process_file, fix_file and main (SpecBatch).                   *)

InFile == pc \in {"import", "fixes", "rules", "write", "except", "returned"}

StageRank(call) ==
    CASE call[1] = "wrap_function_with_callback" -> 1
      [] call[1] = "add_deps_to_useeffect" -> 2
      [] call[1] = "add_use_callback_import" -> 3

\* C7 as stated: in a file's stage calls, every wrap precedes every
\* dependency-list patch, and the import augmentation comes after both.
C7_WrapsThenDepsThenImport ==
    (mode = "batch" /\ script = "fix_exhaustive_deps") =>
        \A i, j \in 1..Len(calls) :
            i < j => StageRank(calls[i]) <= StageRank(calls[j])

RECURSIVE PerFixCalls(_)
PerFixCalls(fs) ==
    IF fs = <<>> THEN <<>>
    ELSE <<WrapCall(Head(fs).name), DepsCall(Head(fs).name)>>
             \o PerFixCalls(Tail(fs))

IsPrefix(a, b) == Len(a) <= Len(b) /\ SubSeq(b, 1, Len(a)) = a

\* C7 as amended: process_file calls the import augmentation first, then for
\* each fix in table order the wrap followed by the dependency-list patch of
\* that fix; the comparison and the write see the whole sequence.
C7_ImportThenWrapAndDepsPerFix ==
    (mode = "batch" /\ script = "fix_exhaustive_deps" /\ InFile) =>
        LET expected == <<ImportCall>> \o PerFixCalls(fixes)
        IN  /\ IsPrefix(calls, expected)
            /\ pc = "fixes" => Len(calls) = 1 + 2 * (fix_i - 1)
            /\ pc = "write" => calls = expected
            /\ \A k \in 1..Len(results) :
                   (results[k].path = path /\ ~results[k].raised)
                       => calls = expected

\* C7 witness: a file with two fixes has gone through all five stage calls
\* and is about to be written.
C7_Witness ==
    /\ mode = "batch" /\ script = "fix_exhaustive_deps" /\ pc = "write"
    /\ Len(fixes) = 2
    /\ calls = <<ImportCall,
                 WrapCall("loadSessions"), DepsCall("loadSessions"),
                 WrapCall("processChartData"), DepsCall("processChartData")>>

Outcomes == {"fixed", "unchanged", "not-found", "error"}

\* C8: when main() has printed its summary, every path of the job table has
\* exactly one outcome line, one of fixed / unchanged / not-found / error.
C8_OneOutcomePerFile ==
    (mode = "batch" /\ pc = "end") =>
        /\ \A i \in 1..Len(Jobs) :
               Cardinality({k \in 1..Len(printed) :
                               printed[k][1] = Jobs[i].path}) = 1
        /\ \A k \in 1..Len(printed) : printed[k][2] \in Outcomes

\* the rule / fix list of a path of the job table
FixesOf(q) == Jobs[CHOOSE i \in 1..Len(Jobs) : Jobs[i].path = q].fixes

\* what C9 says of a state: the write step is reached only with every rule /
\* fix applied and a changed buffer, and every finished call wrote iff the
\* buffer differed, with fix_file returning True exactly for a write
WriteDecision ==
    mode = "batch" =>
        /\ pc = "write" =>
               /\ fix_i = Len(fixes) + 1
               /\ content # original
               /\ disk[path].text = original
        /\ \A k \in 1..Len(results) :
               LET r == results[k]
               IN  /\ ~r.raised =>
                       /\ r.written <=> (r.final # r.original)
                       /\ r.on_disk = r.final
                       /\ r.applied = Len(FixesOf(r.path))
                   /\ r.written =>
                       /\ r.final # r.original
                       /\ r.applied = Len(FixesOf(r.path))
                   /\ script = "fix_all_eslint" => (r.ret <=> r.written)

\* C9: a file is written iff the buffer after all its rules / fixes differs
\* from the content read; the file is touched by the write step alone, which
\* comes after every rule / fix was applied; fix_file returns True exactly
\* when the write happened.
C9_WriteIffChanged ==
    /\ []WriteDecision
    /\ [][disk' # disk => (mode = "batch" /\ pc = "write")]_vars

\* C9 witness: one file was written with changed content, and one was left
\* alone because its rules changed nothing.
C9_Witness ==
    /\ mode = "batch"
    /\ \E k \in 1..Len(results) :
           /\ results[k].written
           /\ results[k].final # results[k].original
           /\ results[k].on_disk = results[k].final
    /\ \E k \in 1..Len(results) :
           /\ ~results[k].written /\ ~results[k].raised
           /\ results[k].on_disk = results[k].original

\* what holds of a run that has printed its summary: every entry of the job
\* table was visited in order, no failing or missing file is reported or
\* counted as fixed, and fixed_count counts exactly the files fix_file
\* returned True for
SummaryAccounts ==
    /\ visited = [i \in 1..Len(Jobs) |-> Jobs[i].path]
    /\ \A k \in 1..Len(results) :
           results[k].raised =>
               /\ ~results[k].ret
               /\ \A n \in 1..Len(printed) :
                      printed[n] # <<results[k].path, "fixed">>
    /\ \A q \in Paths(script) :
           (\E n \in 1..Len(printed) : printed[n] = <<q, "not-found">>)
               => \A n \in 1..Len(printed) : printed[n] # <<q, "fixed">>
    /\ script = "fix_all_eslint" =>
           fixed_count = Cardinality({k \in 1..Len(results) : results[k].ret})

\* the guards of the actions of BatchNext: the script has a next statement
HasNextStep ==
    \/ pc \in {"main", "loop"}
    \/ /\ script = "fix_all_eslint"
       /\ pc \in {"read", "rules", "write", "except", "returned"}
    \/ /\ script = "fix_exhaustive_deps"
       /\ pc \in {"read", "import", "fixes", "write", "except", "returned"}

\* how far the run is: the job index, then the position within the file
Progress ==
    20 * job + CASE pc \in {"main", "loop"} -> 0
                 [] pc = "read" -> 1
                 [] pc = "import" -> 2
                 [] pc \in {"rules", "fixes"} -> 2 + fix_i
                 [] pc = "write" -> 10
                 [] pc = "except" -> 11
                 [] pc = "returned" -> 12
                 [] OTHER -> 13

\* a file of the job table is being handled
InJob == mode = "batch" /\ job \in 1..Len(Jobs)

\* C10: a missing file or an exception in one file never stops the run:
\* before the run ends the script always has a next statement, every step
\* moves it forward, at the summary every entry of the job table was visited
\* and no failing file is counted as fixed, and the run is never left by an
\* exception while it handles a file that is missing, cannot be examined, or
\* whose read, transformation or write raised.
C10_FailureIsolation ==
    /\ [](pc \notin {"end", "aborted"} => HasNextStep)
    /\ [][Progress' > Progress]_vars
    /\ [](pc = "end" => SummaryAccounts)
    /\ []((InJob /\ pc = "aborted") =>
              (disk[path].exists /\ fault \in {"none", "print"}))

-----------------------------------------------------------------------------
(* Claims on the rule tables (SpecTable).                                   *)

\* the rule lists written for path q in a table, concatenated in written order
RECURSIVE WrittenFor(_, _)
WrittenFor(w, q) ==
    IF w = <<>> THEN <<>>
    ELSE (IF Head(w).path = q THEN Head(w).fixes ELSE <<>>)
             \o WrittenFor(Tail(w), q)

\* C11: the rule list main() passes to fix_file for a path is the
\* concatenation, in written order, of every rule list written for that path
\* in the fixes_map literal; no written rule entry is dropped.
C11_EveryWrittenRulePassed ==
    mode = "table" =>
        \A k \in 1..Len(passed) :
            passed[k].fixes = WrittenFor(Written(script), passed[k].path)

====
